---- MODULE Spec2Model ----
(***************************************************************************)
(* Model of scripts/download_nnunet_weights.py: the resolver               *)
(* download_from_google_drive, the response classifier                     *)
(* is_download_response, the interstitial parsers extract_download_url and *)
(* extract_confirm_token, and the resumable writer save_download_response  *)
(* with stream_download_to_file.                                           *)
(*                                                                         *)
(* Texts are modelled as sequences: a header value is a sequence of        *)
(* characters, a URL is a sequence of lexical tokens, an HTML page is a    *)
(* sequence of the elements the regular expressions of the parsers look    *)
(* for.  A Python Optional is a sequence of length 0 (None) or 1.          *)
(***************************************************************************)
EXTENDS Integers, Sequences, FiniteSets, TLC

\* ------------------------------------------------------------------ bounds
\* Largest remote payload, in bytes.
MaxSize == 3
\* Longest file found at output_path when a run starts, in bytes.
MaxPrior == 3
\* Bytes per MiB in the model (the unit of chunk_size and of the progress).
MiB == 2

\* ------------------------------------------------------------- Optionals
NoneVal == <<>>
Some(x) == <<x>>
\* Python truthiness of an Optional[str]: None and "" are both false.  A URL
\* is a token sequence (empty: <<>>), a token is one string (empty: "").
TruthyUrl(opt) == opt # <<>> /\ opt[1] # <<>>
Truthy(opt) == opt # <<>> /\ opt[1] # ""

Min(a, b) == IF a < b THEN a ELSE b

\* ------------------------------------------------------- header strings
\* str.lower() on one character.
LowerChar(c) ==
    CASE c = "A" -> "a" [] c = "C" -> "c" [] c = "E" -> "e" [] c = "H" -> "h"
      [] c = "L" -> "l" [] c = "M" -> "m" [] c = "N" -> "n" [] c = "T" -> "t"
      [] c = "X" -> "x" [] c = "I" -> "i" [] c = "P" -> "p" [] c = "Z" -> "z"
      [] OTHER -> c

Lower(s) == [i \in 1..Len(s) |-> LowerChar(s[i])]

\* The Python operator `needle in s` on strings.
Contains(needle, s) ==
    \E i \in 0..(Len(s) - Len(needle)) :
        \A j \in 1..Len(needle) : s[i + j] = needle[j]

STR_attachment == <<"a","t","t","a","c","h","m","e","n","t">>
STR_text_html == <<"t","e","x","t","/","h","t","m","l">>

\* is_download_response without the Content-Disposition test of line 28.
is_download_response_no_disposition(headers) ==
    ~Contains(STR_text_html, Lower(headers.ct))

is_download_response(headers) ==
    LET content_disposition == headers.cd
        content_type == headers.ct
    IN  IF Contains(STR_attachment, Lower(content_disposition)) THEN TRUE
        ELSE IF Contains(STR_text_html, Lower(content_type)) THEN FALSE
        ELSE TRUE

\* ------------------------------------------------------------------ URLs
\* The file identifier of the job (opaque).
\* main: the place in `jobs` of the job in hand (lines 373-379), and the
\* cookie stores the calls for the jobs before it ended with.
VARIABLES job, jars
jobs == <<[label |-> "binary", file_id |-> "BINARYID"],
          [label |-> "multi", file_id |-> "MULTIID"]>>
mainVars == <<job, jars>>
\* The first job of the loop is in hand.
MainFirstJob == job = 1 /\ jars = <<>>

\* file_id of the job in hand
FileId == jobs[job].file_id

HOST_UC == "https://drive.google.com/uc"
HOST_USERCONTENT == "https://drive.usercontent.google.com/download"

\* The two seed URLs, in the order of initial_urls.
initial_urls(file_id) ==
    << <<HOST_UC, "?", "export", "=", "download", "&", "id", "=", file_id>>,
       <<HOST_USERCONTENT, "?", "id", "=", file_id, "&", "export", "=", "download">> >>

\* Three confirm-token URLs: the two of confirm_urls and the first once more
\* with the parameters in another order.
confirm_urls_three(confirm_token, file_id) ==
    << <<HOST_UC, "?", "export", "=", "download", "&", "confirm", "=", confirm_token,
         "&", "id", "=", file_id>>,
       <<HOST_USERCONTENT, "?", "id", "=", file_id, "&", "export", "=", "download",
         "&", "confirm", "=", confirm_token>>,
       <<HOST_UC, "?", "id", "=", file_id, "&", "export", "=", "download",
         "&", "confirm", "=", confirm_token>> >>

\* The two confirm-token URLs, in the order of confirm_urls.
confirm_urls(confirm_token, file_id) ==
    << <<HOST_UC, "?", "export", "=", "download", "&", "confirm", "=", confirm_token,
         "&", "id", "=", file_id>>,
       <<HOST_USERCONTENT, "?", "id", "=", file_id, "&", "export", "=", "download",
         "&", "confirm", "=", confirm_token>> >>

\* ------------------------------------------------------------ the parsers
\* html.unescape on one token.
HtmlUnescape(t) ==
    CASE t = "&amp;" -> "&" [] t = "&#61;" -> "=" [] t = "&quot;" -> "\""
      [] OTHER -> t

\* The three str.replace calls of decode_possible_url on one token.
ReplaceEscapes(t) ==
    CASE t = "\\u003d" -> "=" [] t = "\\u0026" -> "&" [] t = "\\/" -> "/"
      [] OTHER -> t

decode_possible_url(raw_value) ==
    [i \in 1..Len(raw_value) |-> ReplaceEscapes(HtmlUnescape(raw_value[i]))]

\* urllib.parse.quote_plus on one token.
QuotePlus(t) ==
    CASE t = "a b" -> "a+b" [] t = "&" -> "%26" [] t = "=" -> "%3D"
      [] OTHER -> t

\* An HTML page is a sequence of elements [tag, name, value]:
\*   tag "json"   : "name":"value"                  (value a token sequence)
\*   tag "form"   : <form id="name" action="value"> (value a token sequence)
\*   tag "hidden" : <input type="hidden" name="name" value="value">
\*   tag "cq"     : 'confirm':'value'
\*   tag "cj"     : "confirm":"value"
\*   tag "cua"    : confirm=value&
\*   tag "cu"     : confirm=value
IsDownloadUrlField(e) == e.tag = "json" /\ e.name = "downloadUrl" /\ e.value # <<>>
IsDownloadForm(e) == e.tag = "form" /\ e.name = "download-form" /\ e.value # <<>>
IsHiddenInput(e) == e.tag = "hidden"

\* re.search: the first of the matches, if any.
FirstMatch(matches) == IF matches = <<>> THEN NoneVal ELSE Some(matches[1])

\* dict insertion and overwrite (params[name] = value), keeping insertion order.
RECURSIVE DictSet(_, _, _)
DictSet(params, k, v) ==
    IF params = <<>> THEN << <<k, v>> >>
    ELSE IF params[1][1] = k THEN << <<k, v>> >> \o Tail(params)
    ELSE <<params[1]>> \o DictSet(Tail(params), k, v)

DictHas(params, k) == \E i \in 1..Len(params) : params[i][1] = k

setdefault(params, k, v) == IF DictHas(params, k) THEN params ELSE DictSet(params, k, v)

RECURSIVE CollectHidden(_, _)
CollectHidden(tags, params) ==
    IF tags = <<>> THEN params
    ELSE CollectHidden(Tail(tags),
                       IF tags[1].name # ""
                       THEN DictSet(params, tags[1].name, HtmlUnescape(tags[1].value))
                       ELSE params)

RECURSIVE urlencode(_)
urlencode(params) ==
    IF params = <<>> THEN <<>>
    ELSE <<QuotePlus(params[1][1]), "=", QuotePlus(params[1][2])>>
         \o (IF Len(params) > 1 THEN <<"&">> ELSE <<>>)
         \o urlencode(Tail(params))

\* The download-form tried before the "downloadUrl" field.
extract_download_url_form_first(html_text, file_id) ==
    LET direct_match == FirstMatch(SelectSeq(html_text, IsDownloadUrlField))
        form_action_match == FirstMatch(SelectSeq(html_text, IsDownloadForm))
    IN  IF form_action_match # NoneVal
        THEN LET action == [i \in 1..Len(form_action_match[1].value) |->
                               HtmlUnescape(form_action_match[1].value[i])]
                 hidden_inputs == SelectSeq(html_text, IsHiddenInput)
                 params == setdefault(
                             setdefault(CollectHidden(hidden_inputs, <<>>), "id", file_id),
                             "export", "download")
             IN  Some(action \o <<"?">> \o urlencode(params))
        ELSE IF direct_match # NoneVal
        THEN Some(decode_possible_url(direct_match[1].value))
        ELSE NoneVal

extract_download_url(html_text, file_id) ==
    LET direct_match == FirstMatch(SelectSeq(html_text, IsDownloadUrlField))
        form_action_match == FirstMatch(SelectSeq(html_text, IsDownloadForm))
    IN  IF direct_match # NoneVal
        THEN Some(decode_possible_url(direct_match[1].value))
        ELSE IF form_action_match # NoneVal
        THEN LET action == [i \in 1..Len(form_action_match[1].value) |->
                               HtmlUnescape(form_action_match[1].value[i])]
                 hidden_inputs == SelectSeq(html_text, IsHiddenInput)
                 params == setdefault(
                             setdefault(CollectHidden(hidden_inputs, <<>>), "id", file_id),
                             "export", "download")
             IN  Some(action \o <<"?">> \o urlencode(params))
        ELSE NoneVal

\* Tokens that match [0-9A-Za-z_]+ as a whole.
WordTokens == {"tc", "th", "t2", "BINARYID", "MULTIID", "download", "confirm", "id", "export"}
IsWord(t) == t \in WordTokens

\* The first place of the token sequence `toks` where confirm=<word> stands
\* (followed by & when amp), or 0.
ConfirmAt(toks, amp) ==
    LET hits == {i \in 1..(Len(toks) - 2) :
                    /\ toks[i] = "confirm" /\ toks[i + 1] = "=" /\ IsWord(toks[i + 2])
                    /\ (amp => (i + 3 <= Len(toks) /\ toks[i + 3] = "&"))}
    IN  IF hits = {} THEN 0 ELSE CHOOSE i \in hits : \A j \in hits : i <= j

\* What pattern k of extract_confirm_token captures in element e, if it matches.
PatternMatch(k, e) ==
    CASE k = 1 -> IF e.tag = "hidden" /\ e.name = "confirm" /\ IsWord(e.value)
                  THEN Some(e.value) ELSE NoneVal
      [] k = 2 -> IF e.tag = "cq" /\ IsWord(e.value) THEN Some(e.value) ELSE NoneVal
      [] k = 3 -> IF e.tag = "cj" /\ IsWord(e.value) THEN Some(e.value) ELSE NoneVal
      [] k = 4 -> IF e.tag = "cua" /\ IsWord(e.value) THEN Some(e.value)
                  ELSE IF e.tag \in {"json", "form"} /\ ConfirmAt(e.value, TRUE) > 0
                  THEN Some(e.value[ConfirmAt(e.value, TRUE) + 2])
                  ELSE NoneVal
      [] OTHER -> IF e.tag \in {"cu", "cua"} /\ IsWord(e.value) THEN Some(e.value)
                  ELSE IF e.tag \in {"json", "form"} /\ ConfirmAt(e.value, FALSE) > 0
                  THEN Some(e.value[ConfirmAt(e.value, FALSE) + 2])
                  ELSE NoneVal

\* re.search(patterns[k], html): the capture of the first match.
PatternSearch(k, html_text) ==
    LET hits == {i \in 1..Len(html_text) : PatternMatch(k, html_text[i]) # NoneVal}
    IN  IF hits = {} THEN NoneVal
        ELSE PatternMatch(k, html_text[CHOOSE i \in hits : \A j \in hits : i <= j])

\* A cookie is [name, value]; a name is a sequence of words, and
\* name.startswith("download_warning") tests its first word.
IsWarningCookie(cookie) ==
    Len(cookie.name) >= 1 /\ cookie.name[1] = "download_warning"

extract_confirm_token(html_text, jar) ==
    LET warn == {i \in 1..Len(jar) : IsWarningCookie(jar[i])}
        hits == {k \in 1..5 : PatternSearch(k, html_text) # NoneVal}
    IN  IF warn # {}
        THEN Some(jar[CHOOSE i \in warn : \A j \in warn : i <= j].value)
        ELSE IF hits = {} THEN NoneVal
        ELSE PatternSearch(CHOOSE k \in hits : \A j \in hits : k <= j, html_text)

\* CookieJar.set_cookie: a cookie of the same name is replaced in place.
RECURSIVE set_cookie(_, _)
set_cookie(jar, cookie) ==
    IF jar = <<>> THEN <<cookie>>
    ELSE IF jar[1].name = cookie.name THEN <<cookie>> \o Tail(jar)
    ELSE <<jar[1]>> \o set_cookie(Tail(jar), cookie)

\* -------------------------------------------------------- extract_filename
\* The first index at which needle stands in s, or 0.
IndexOf(needle, s) ==
    LET hits == {i \in 1..(Len(s) - Len(needle) + 1) :
                    \A j \in 1..Len(needle) : s[i + j - 1] = needle[j]}
    IN  IF hits = {} THEN 0 ELSE CHOOSE i \in hits : \A j \in hits : i <= j

\* The longest prefix of s[from..] that holds no character of stop.
RECURSIVE TakeUntil(_, _, _)
TakeUntil(s, from, stop) ==
    IF from > Len(s) \/ s[from] \in stop THEN <<>>
    ELSE <<s[from]>> \o TakeUntil(s, from + 1, stop)

\* urllib.parse.unquote, for the escape %20.
RECURSIVE unquote(_)
unquote(s) ==
    IF s = <<>> THEN <<>>
    ELSE IF Len(s) >= 3 /\ s[1] = "%" /\ s[2] = "2" /\ s[3] = "0"
    THEN <<" ">> \o unquote(SubSeq(s, 4, Len(s)))
    ELSE <<s[1]>> \o unquote(Tail(s))

STR_filename_star == <<"f","i","l","e","n","a","m","e","*","=","U","T","F","-","8","'","'">>
STR_filename_eq == <<"f","i","l","e","n","a","m","e","=">>

extract_filename(headers, fallback) ==
    LET cd == headers.cd
        e == IndexOf(STR_filename_star, cd)
        encoded == IF e = 0 THEN <<>> ELSE TakeUntil(cd, e + Len(STR_filename_star), {";"})
        q == IndexOf(STR_filename_eq, cd)
        start == IF q = 0 THEN 0
                 ELSE IF q + 9 <= Len(cd) /\ cd[q + 9] = "\"" THEN q + 10 ELSE q + 9
        plain == IF q = 0 THEN <<>> ELSE TakeUntil(cd, start, {"\"", ";"})
    IN  IF encoded # <<>> THEN unquote(encoded)
        ELSE IF plain # <<>> THEN plain
        ELSE fallback

\* ------------------------------------------------- what the server can send
CD_NONE == <<>>
CD_ATTACHMENT == <<"a","t","t","a","c","h","m","e","n","t",";"," ","f","i","l","e","n","a","m","e","=","\"","w",".","z","i","p","\"">>
CD_ATTACHMENT_UPPER == <<"A","T","T","A","C","H","M","E","N","T">>
CD_INLINE == <<"i","n","l","i","n","e">>
CT_NONE == <<>>
CT_HTML == <<"t","e","x","t","/","h","t","m","l",";"," ","c","h","a","r","s","e","t","=","u","t","f","-","8">>
CT_HTML_UPPER == <<"T","e","x","t","/","H","T","M","L">>
CT_ZIP == <<"a","p","p","l","i","c","a","t","i","o","n","/","z","i","p">>

\* The Content-Disposition values above that hold "attachment" in some case,
\* and the Content-Type values that hold "text/html" in some case.
CDsWithAttachment == {CD_ATTACHMENT, CD_ATTACHMENT_UPPER}
CTsWithTextHtml == {CT_HTML, CT_HTML_UPPER}

\* Response headers of a resolution GET for a body of `size` bytes:
\* Content-Disposition, Content-Type and Content-Length (cl: <<>> when absent
\* or not a number, else <<n>>).
ResolutionHeaders(size) ==
    { [cd |-> CD_NONE, ct |-> CT_HTML, cl |-> <<>>],
      [cd |-> CD_INLINE, ct |-> CT_HTML_UPPER, cl |-> <<>>],
      [cd |-> CD_ATTACHMENT, ct |-> CT_HTML, cl |-> <<>>],
      [cd |-> CD_ATTACHMENT_UPPER, ct |-> CT_ZIP, cl |-> <<>>],
      [cd |-> CD_NONE, ct |-> CT_ZIP, cl |-> <<size>>],
      [cd |-> CD_NONE, ct |-> CT_NONE, cl |-> <<>>] }

fallback_filename == <<"b","i","n","a","r","y","_","m","o","d","e","l",".","z","i","p">>

\* The entries the output directory can hold.
Names == {extract_filename(h, fallback_filename) : h \in ResolutionHeaders(0)}

El(tag, name, value) == [tag |-> tag, name |-> name, value |-> value]

RAW_DIRECT == <<"https:", "\\/", "\\/", "dl.example", "\\/", "file", "?", "k", "\\u003d", "v">>

\* Interstitial pages the host can answer a seed with.
PAGE_EMPTY == <<El("text", "", "")>>
PAGE_DIRECT == <<El("json", "downloadUrl", RAW_DIRECT)>>
PAGE_FORM == <<El("form", "download-form", <<HOST_USERCONTENT>>),
               El("hidden", "id", FileId), El("hidden", "export", "download")>>
PAGE_FORM_CONFIRM == <<El("form", "download-form", <<HOST_USERCONTENT>>),
                       El("hidden", "id", FileId), El("hidden", "export", "download"),
                       El("hidden", "confirm", "th")>>
PAGE_TOKEN == <<El("cj", "confirm", "th")>>
PAGE_DIRECT_TOKEN == <<El("cq", "confirm", "t2"), El("json", "downloadUrl", RAW_DIRECT)>>

Pages == {PAGE_EMPTY, PAGE_DIRECT, PAGE_FORM, PAGE_FORM_CONFIRM, PAGE_TOKEN,
          PAGE_DIRECT_TOKEN}

WARNING_COOKIE == [name |-> <<"download_warning", "_1305_", FileId>>, value |-> "tc"]
OTHER_COOKIE == [name |-> <<"NID">>, value |-> "th"]

\* The cookies a response sets: none, or a session cookie and the warning
\* cookie together.
SetCookies == {<<>>, <<OTHER_COOKIE, WARNING_COOKIE>>}

\* HTTPCookieProcessor.http_response: store the cookies of the response.
RECURSIVE extract_cookies(_, _)
extract_cookies(jar, set) ==
    IF set = <<>> THEN jar ELSE extract_cookies(set_cookie(jar, set[1]), Tail(set))

\* What opener.open() does with a request of the resolution: it raises
\* URLError (transport), raises HTTPError (a status outside 2xx), or returns
\* a response.
OpenOutcomes == {"URLError", "HTTPError", "response"}

\* ------------------------------------------------------------------ state
VARIABLES
    pc,               \* position of the run: "seed", "direct", "confirm", "exhausted",
                      \* "save", "stream", "returned", "raised"
    payload,          \* the remote file: the body of every Attachment response
    fs,               \* output_dir: name -> NoneVal (absent) or Some(content)
    fs0,              \* output_dir as it was when the run started
    seed_idx,         \* index of base_url in initial_urls
    attempts,         \* attempts: list[str]
    cookie_jar,       \* the CookieJar of the opener, in insertion order
    html_text,        \* html_text of the current seed
    parsed_url,       \* Optional parsed_url of the current seed
    confirm_token,    \* Optional confirm_token of the current seed
    confirm_idx,      \* index of confirm_url in confirm_urls
    response,         \* Optional: the response object last returned by opener.open
    requests,         \* every request the opener sent, in order, with its outcome
    url,              \* save_download_response: url
    output_path,      \* save_download_response: output_path (a name in output_dir)
    existing_size,    \* save_download_response: existing_size
    append,           \* stream_download_to_file: append
    total_bytes,      \* stream_download_to_file: total_bytes
    downloaded,       \* stream_download_to_file: downloaded
    last_reported_mb, \* stream_download_to_file: last_reported_mb
    reports,          \* the progress lines printed, in order
    result,           \* Optional: the path download_from_google_drive returned
    error             \* Optional: the exception that left download_from_google_drive

\* The state of main around the download of one job: the directory tree under
\* target_dir and the position inside flatten_model_dir_if_needed.
VARIABLES
    tree,             \* the entries of the file system at and below target_dir
    tree0,            \* the tree when the current call of the flattener began
    fpc,              \* position of main in its normalisation steps
    model_dir,        \* flatten_model_dir_if_needed: model_dir (Optional)
    parent,           \* flatten_model_dir_if_needed: parent
    ops,              \* the moves and removals of the current call, in order
    returns,          \* what the completed calls of the flattener returned
    archive_path,     \* main: archive_or_file / local_archive (Optional)
    contents,         \* what the bytes of the file at archive_path hold
    no_extract,       \* main: args.no_extract
    extracted         \* Optional: what extract_archive_if_supported returned

resolverVars == <<seed_idx, attempts, cookie_jar, html_text, parsed_url, confirm_token,
                  confirm_idx>>
writerVars == <<url, output_path, existing_size, append, total_bytes, downloaded,
                last_reported_mb, reports>>
flattenVars == <<tree0, fpc, model_dir, parent, ops, returns>>
archiveVars == <<archive_path, contents, no_extract, extracted>>
dirVars == <<tree, flattenVars, archiveVars>>
vars == <<pc, payload, fs, fs0, resolverVars, response, requests, writerVars, result,
          error, dirVars, mainVars>>

\* main is inside download_from_google_drive: nothing of the tree is in play.
NoArchive ==
    /\ archive_path = NoneVal
    /\ contents = NoneVal
    /\ no_extract = FALSE
    /\ extracted = NoneVal

DirIdle ==
    /\ tree = {}
    /\ tree0 = {}
    /\ fpc = "download"
    /\ model_dir = NoneVal
    /\ parent = <<>>
    /\ ops = <<>>
    /\ returns = <<>>
    /\ NoArchive
    /\ MainFirstJob

\* chunk_size = 1024 * 1024
chunk_size == MiB

\* The remote files of the model: bytes 1..S, all different.
Payloads == {[i \in 1..S |-> i] : S \in 1..MaxSize}
Byte == 1..MaxSize
\* What may stand at a path of output_dir before the run: nothing, or any file
\* (a partial or complete earlier download, or something else of that name).
PriorFiles == {NoneVal} \cup {Some(c) : c \in UNION {[1..n -> Byte] : n \in 0..MaxPrior}}

Prefix(p, k) == SubSeq(p, 1, k)
IsPrefix(c, p) == Len(c) <= Len(p) /\ c = Prefix(p, Len(c))

\* A request as the log keeps it: range is -1 without a Range header, else the
\* offset of "bytes=<offset>-"; outcome is how opener.open ended and, for a
\* response of the resolution, how it was classified; html is the page of an
\* interstitial answer to a seed, jar the cookies held after the answer and
\* sent the cookies of the store when the request was made.
Req(u, range, via, outcome, html, jar) ==
    [url |-> u, range |-> range, via |-> via, seed |-> seed_idx, outcome |-> outcome,
     html |-> html, jar |-> jar, sent |-> cookie_jar]

\* The exception objects: RuntimeError carries the attempts (lines 252-257),
\* an exception of urllib carries none.
\* RuntimeError whose message lists only the last URL tried.
RuntimeErrorOf_last_only(tried) ==
    [type |-> "RuntimeError", tried |-> Some(SubSeq(tried, Len(tried), Len(tried)))]

RuntimeErrorOf(tried) == [type |-> "RuntimeError", tried |-> Some(tried)]

\* The exception of urllib replaced by a RuntimeError of the resolver.
UrllibError_as_runtime(type) == [type |-> "RuntimeError", tried |-> NoneVal]

UrllibError(type) == [type |-> type, tried |-> NoneVal]

\* A response object: its headers, the body not yet read, whether the body
\* was read as HTML (line 224) and whether close() was called.
ResponseOf(h, status, body) ==
    [headers |-> h, status |-> status, body |-> body, html_read |-> FALSE,
     closed |-> FALSE]

Init ==
    /\ DirIdle
    /\ pc = "seed"
    /\ payload = [i \in 1..MaxSize |-> i]
    /\ fs \in {[n \in Names |-> IF n = fallback_filename THEN c ELSE NoneVal] :
                 c \in {NoneVal, Some(Prefix(payload, 1))}}
    /\ fs0 = fs
    /\ seed_idx = 1
    /\ attempts = <<>>
    /\ cookie_jar = <<>>
    /\ html_text = <<>>
    /\ parsed_url = NoneVal
    /\ confirm_token = NoneVal
    /\ confirm_idx = 1
    /\ response = NoneVal
    /\ requests = <<>>
    /\ url = <<>>
    /\ output_path = fallback_filename
    /\ existing_size = 0
    /\ append = FALSE
    /\ total_bytes = 0
    /\ downloaded = 0
    /\ last_reported_mb = -1
    /\ reports = <<>>
    /\ result = NoneVal
    /\ error = NoneVal

\* ------------------------------------------------- download_from_google_drive
\* A URL appended only when the list does not hold it yet.
attempts_append_unique(list, u) ==
    IF \E i \in 1..Len(list) : list[i] = u THEN list ELSE Append(list, u)

\* attempts.append(url)
attempts_append(list, u) == Append(list, u)

\* `for base_url in initial_urls`: is there a seed after the one at index i?
HasNextSeed(i) == i < Len(initial_urls(FileId))

\* The loop over confirm_urls left after its first URL.
HasNextConfirm_first_only(i) == FALSE

\* `for confirm_url in confirm_urls`: is there a URL after the one at index i?
HasNextConfirm(i) == i < Len(confirm_urls("", FileId))

\* An exception of opener.open leaves download_from_google_drive as it is.
Propagate(type) ==
    /\ pc' = "raised"
    /\ error' = Some(UrllibError(type))

\* The end of one iteration of the loop over initial_urls.
NextSeed ==
    IF HasNextSeed(seed_idx)
    THEN pc' = "seed" /\ seed_idx' = seed_idx + 1
    ELSE pc' = "exhausted" /\ seed_idx' = seed_idx

\* Lines 237-243: the token search with the cookies held by now, then either
\* the loop over confirm_urls or the next seed.
TokenSearch(html, jar) ==
    /\ confirm_token' = extract_confirm_token(html, jar)
    /\ IF Truthy(confirm_token')
       THEN pc' = "confirm" /\ confirm_idx' = 1 /\ seed_idx' = seed_idx
       ELSE NextSeed /\ confirm_idx' = confirm_idx

\* The direct URL gave no file, so the seed is given up (no token search).
AfterDirect_next_seed(html, jar) ==
    NextSeed /\ UNCHANGED <<confirm_token, confirm_idx>>

\* Lines 235-243: response2 was not the file; it is closed and the run goes
\* on to the token search of the same seed.
AfterDirect(html, jar) == TokenSearch(html, jar)

\* The seed of the round handed to the writer, whatever URL gave the file.
HandOff_seed_url(u, h) ==
    /\ pc' = "save"
    /\ url' = initial_urls(FileId)[seed_idx]
    /\ output_path' = extract_filename(h, fallback_filename)
    /\ response' = Some(ResponseOf(h, 200, payload))

\* Lines 220-222, 232-234, 247-249: the response is the file; its name is
\* taken from the headers and save_download_response is entered.
HandOff(u, h) ==
    /\ pc' = "save"
    /\ url' = u
    /\ output_path' = extract_filename(h, fallback_filename)
    /\ response' = Some(ResponseOf(h, 200, payload))

\* Lines 216-227 (and 237-243 when no URL was parsed): GET of a seed.
RequestSeed ==
    /\ pc = "seed"
    /\ LET base_url == initial_urls(FileId)[seed_idx] IN
       /\ attempts' = attempts_append(attempts, base_url)
       /\ \/ \E type \in {"URLError", "HTTPError"} :
               /\ Propagate(type)
               /\ requests' = Append(requests, Req(base_url, -1, "seed", type, <<>>, cookie_jar))
               /\ UNCHANGED <<mainVars, dirVars, payload, fs, fs0, seed_idx, cookie_jar, html_text, parsed_url,
                              confirm_token, confirm_idx, response, writerVars, result>>
          \/ \E h \in ResolutionHeaders(Len(payload)), sc \in SetCookies :
               /\ cookie_jar' = extract_cookies(cookie_jar, sc)
               /\ IF is_download_response(h)
                  THEN /\ HandOff(base_url, h)
                       /\ requests' = Append(requests, Req(base_url, -1, "seed", "Attachment", <<>>, cookie_jar'))
                       /\ UNCHANGED <<seed_idx, html_text, parsed_url, confirm_token,
                                      confirm_idx>>
                  ELSE /\ \E page \in Pages :
                            /\ html_text' = page
                            /\ requests' = Append(requests,
                                  Req(base_url, -1, "seed", "Interstitial", page, cookie_jar'))
                            /\ parsed_url' = extract_download_url(page, FileId)
                            /\ IF TruthyUrl(parsed_url')
                               THEN /\ pc' = "direct"
                                    /\ UNCHANGED <<seed_idx, confirm_token, confirm_idx>>
                               ELSE TokenSearch(page, cookie_jar')
                       /\ response' = Some([ResponseOf(h, 200, <<>>) EXCEPT
                                              !.html_read = TRUE, !.closed = TRUE])
                       /\ UNCHANGED <<url, output_path>>
               /\ UNCHANGED <<mainVars, dirVars, payload, fs, fs0, existing_size, append, total_bytes,
                              downloaded, last_reported_mb, reports, result, error>>

\* Lines 228-243: GET of the URL parsed from the interstitial page.
RequestDirect ==
    /\ pc = "direct"
    /\ LET u == parsed_url[1] IN
       /\ attempts' = attempts_append(attempts, u)
       /\ \/ \E type \in {"URLError", "HTTPError"} :
               /\ Propagate(type)
               /\ requests' = Append(requests, Req(u, -1, "direct", type, <<>>, cookie_jar))
               /\ UNCHANGED <<mainVars, dirVars, payload, fs, fs0, seed_idx, cookie_jar, html_text, parsed_url,
                              confirm_token, confirm_idx, response, writerVars, result>>
          \/ \E h \in ResolutionHeaders(Len(payload)), sc \in SetCookies :
               /\ cookie_jar' = extract_cookies(cookie_jar, sc)
               /\ IF is_download_response(h)
                  THEN /\ HandOff(u, h)
                       /\ requests' = Append(requests, Req(u, -1, "direct", "Attachment", <<>>, cookie_jar'))
                       /\ UNCHANGED <<seed_idx, confirm_token, confirm_idx>>
                  ELSE /\ AfterDirect(html_text, cookie_jar')
                       /\ response' = Some([ResponseOf(h, 200, <<>>) EXCEPT
                                              !.closed = TRUE])
                       /\ requests' = Append(requests, Req(u, -1, "direct", "Interstitial", <<>>, cookie_jar'))
                       /\ UNCHANGED <<url, output_path>>
               /\ UNCHANGED <<mainVars, dirVars, payload, fs, fs0, html_text, parsed_url, existing_size, append,
                              total_bytes, downloaded, last_reported_mb, reports, result,
                              error>>

\* Lines 243-250: GET of one confirm-token URL.
RequestConfirm ==
    /\ pc = "confirm"
    /\ LET confirm_url == confirm_urls(confirm_token[1], FileId)[confirm_idx] IN
       /\ attempts' = attempts_append(attempts, confirm_url)
       /\ \/ \E type \in {"URLError", "HTTPError"} :
               /\ Propagate(type)
               /\ requests' = Append(requests, Req(confirm_url, -1, "confirm", type, <<>>, cookie_jar))
               /\ UNCHANGED <<mainVars, dirVars, payload, fs, fs0, seed_idx, cookie_jar, html_text, parsed_url,
                              confirm_token, confirm_idx, response, writerVars, result>>
          \/ \E h \in ResolutionHeaders(Len(payload)), sc \in SetCookies :
               /\ cookie_jar' = extract_cookies(cookie_jar, sc)
               /\ IF is_download_response(h)
                  THEN /\ HandOff(confirm_url, h)
                       /\ requests' = Append(requests,
                                             Req(confirm_url, -1, "confirm", "Attachment", <<>>, cookie_jar'))
                       /\ UNCHANGED <<seed_idx, confirm_idx>>
                  ELSE /\ IF HasNextConfirm(confirm_idx)
                          THEN /\ pc' = "confirm"
                               /\ confirm_idx' = confirm_idx + 1
                               /\ seed_idx' = seed_idx
                          ELSE NextSeed /\ confirm_idx' = confirm_idx
                       /\ response' = Some([ResponseOf(h, 200, <<>>) EXCEPT
                                              !.closed = TRUE])
                       /\ requests' = Append(requests,
                                             Req(confirm_url, -1, "confirm", "Interstitial", <<>>, cookie_jar'))
                       /\ UNCHANGED <<url, output_path>>
               /\ UNCHANGED <<mainVars, dirVars, payload, fs, fs0, html_text, parsed_url, confirm_token,
                              existing_size, append, total_bytes, downloaded,
                              last_reported_mb, reports, result, error>>

\* Lines 252-257: no seed is left; RuntimeError with the attempts.
RaiseExhausted ==
    /\ pc = "exhausted"
    /\ pc' = "raised"
    /\ error' = Some(RuntimeErrorOf(attempts))
    /\ UNCHANGED <<mainVars, dirVars, payload, fs, fs0, resolverVars, response, requests, writerVars, result>>

\* ----------------------------------------------------- save_download_response
\* output_path.stat().st_size if output_path.exists() else 0
SizeOf(dir, path) == IF dir[path] = NoneVal THEN 0 ELSE Len(dir[path][1])

\* The Range header asking for the bytes after the next one.
RangeOffset_next(size) == size + 1

\* The offset sent in the Range header, "bytes={existing_size}-".
RangeOffset(size) == size

\* The file always opened for appending.
OpenMode_always_append(app) == "ab"

\* mode = "ab" if append else "wb"
OpenMode(app) == IF app THEN "ab" ELSE "wb"

\* output_path.open(mode): "wb" creates or truncates, "ab" creates or keeps.
OpenFile(dir, path, mode) ==
    IF mode = "wb" \/ dir[path] = NoneVal THEN [dir EXCEPT ![path] = Some(<<>>)] ELSE dir

\* The total taken from Content-Length alone.
TotalBytes_range_only(h, app, initial_bytes) ==
    IF h.cl = <<>> THEN 0 ELSE h.cl[1]

\* int(Content-Length), 0 on ValueError; with append, plus initial_bytes.
TotalBytes(h, app, initial_bytes) ==
    LET total == IF h.cl = <<>> THEN 0 ELSE h.cl[1]
    IN  IF app /\ total > 0 THEN total + initial_bytes ELSE total

\* What save_download_response does with the answer to the range request
\* (lines 175-196): HTTPError 416 is success without a write, any other
\* HTTPError is re-raised, a 206 response is appended, any other response
\* restarts the download.
IsHTTPError(status) == status < 200 \/ status > 299

\* HTTPError 416 handled like a response that ignored the range.
ResumeBranch_416_restarts(status) ==
    IF status = 206 THEN "append"
    ELSE IF status = 416 \/ ~IsHTTPError(status) THEN "restart"
    ELSE "raise"

ResumeBranch(status) ==
    IF IsHTTPError(status)
    THEN IF status = 416 THEN "complete" ELSE "raise"
    ELSE IF status = 206 THEN "append" ELSE "restart"

\* The first statements of stream_download_to_file, up to the open (117-129).
StreamBegin(h, app, initial_bytes) ==
    /\ append' = app
    /\ total_bytes' = TotalBytes(h, app, initial_bytes)
    /\ downloaded' = initial_bytes
    /\ last_reported_mb' = -1
    /\ fs' = OpenFile(fs, output_path, OpenMode(app))
    /\ pc' = "stream"

\* Lines 166-168 and 117-129: nothing (or an empty file) is at output_path;
\* the response at hand is streamed to it.
SaveFresh ==
    /\ pc = "save"
    /\ SizeOf(fs, output_path) <= 0
    /\ existing_size' = SizeOf(fs, output_path)
    /\ StreamBegin(response[1].headers, FALSE, 0)
    /\ UNCHANGED <<mainVars, dirVars, payload, fs0, resolverVars, response, requests, url, output_path,
                   reports, result, error>>

\* Statuses with which the server answers the range request.
RangeStatuses == {200, 206, 404, 416}

\* The body the server sends with a status to a request for bytes offset-.
\* 206 is sent only when offset is inside the file, 416 only when it is not.
ServerSends(status, offset) ==
    CASE status = 206 -> offset < Len(payload)
      [] status = 416 -> offset >= Len(payload)
      [] OTHER -> TRUE

RangeBody(status, offset) ==
    IF status = 206 THEN SubSeq(payload, offset + 1, Len(payload))
    ELSE IF status = 200 THEN payload
    ELSE <<>>

\* Lines 166, 172-196 and 117-129: a file is at output_path; the response at
\* hand is closed and the request is sent again with a Range header.
SaveResume ==
    /\ pc = "save"
    /\ SizeOf(fs, output_path) > 0
    /\ existing_size' = SizeOf(fs, output_path)
    /\ LET offset == RangeOffset(existing_size') IN
       \/ /\ Propagate("URLError")
          /\ response' = Some([response[1] EXCEPT !.closed = TRUE])
          /\ requests' = Append(requests, Req(url, offset, "resume", "URLError", <<>>, cookie_jar))
          /\ UNCHANGED <<fs, append, total_bytes, downloaded, last_reported_mb, result>>
       \/ \E status \in RangeStatuses, withLength \in BOOLEAN :
             /\ ServerSends(status, offset)
             /\ requests' = Append(requests, Req(url, offset, "resume", ToString(status), <<>>, cookie_jar))
             /\ LET body == RangeBody(status, offset)
                    h == [cd |-> CD_NONE, ct |-> CT_ZIP,
                          cl |-> IF withLength THEN <<Len(body)>> ELSE <<>>]
                    branch == ResumeBranch(status)
                IN  CASE branch = "complete" ->
                           /\ pc' = "returned"
                           /\ result' = Some(output_path)
                           /\ response' = Some([response[1] EXCEPT !.closed = TRUE])
                           /\ UNCHANGED <<fs, append, total_bytes, downloaded,
                                          last_reported_mb, error>>
                      [] branch = "raise" ->
                           /\ Propagate("HTTPError")
                           /\ response' = Some([response[1] EXCEPT !.closed = TRUE])
                           /\ UNCHANGED <<fs, append, total_bytes, downloaded,
                                          last_reported_mb, result>>
                      [] OTHER ->
                           /\ response' = Some(ResponseOf(h, status, body))
                           /\ StreamBegin(h, branch = "append",
                                          IF branch = "append" THEN existing_size' ELSE 0)
                           /\ UNCHANGED <<result, error>>
    /\ UNCHANGED <<mainVars, dirVars, payload, fs0, resolverVars, url, output_path, reports>>

\* Lines 131-155: one chunk is read, written and, when the count of whole MiB
\* changed, reported.
StreamRead ==
    /\ pc = "stream"
    /\ response[1].body # <<>>
    /\ \E n \in 1..Min(chunk_size, Len(response[1].body)) :
         LET chunk == SubSeq(response[1].body, 1, n)
             downloaded_mb == (downloaded + n) \div MiB
         IN  /\ response' = Some([response[1] EXCEPT
                                    !.body = SubSeq(@, n + 1, Len(@))])
             /\ fs' = [fs EXCEPT ![output_path] = Some(@[1] \o chunk)]
             /\ downloaded' = downloaded + n
             /\ IF downloaded_mb = last_reported_mb
                THEN UNCHANGED <<last_reported_mb, reports>>
                ELSE /\ last_reported_mb' = downloaded_mb
                     /\ reports' = Append(reports, [mb |-> downloaded_mb,
                                                    of |-> total_bytes])
    /\ UNCHANGED <<mainVars, dirVars, pc, payload, fs0, resolverVars, requests, url, output_path,
                   existing_size, append, total_bytes, result, error>>

\* Lines 131-133, 156, 169-170 (192-193, 197-198): read() returns b"", the
\* file and the response are closed and output_path is returned.
StreamEnd ==
    /\ pc = "stream"
    /\ response[1].body = <<>>
    /\ pc' = "returned"
    /\ result' = Some(output_path)
    /\ response' = Some([response[1] EXCEPT !.closed = TRUE])
    /\ UNCHANGED <<mainVars, dirVars, payload, fs, fs0, resolverVars, requests, writerVars, error>>

\* Line 131: read() raises (the connection broke); the file keeps what was
\* written and the exception leaves download_from_google_drive.
StreamFail ==
    /\ pc = "stream"
    /\ response[1].body # <<>>
    /\ Propagate("URLError")
    /\ UNCHANGED <<mainVars, dirVars, payload, fs, fs0, resolverVars, response, requests, writerVars, result>>

Next ==
    \/ RequestSeed
    \/ RequestDirect
    \/ RequestConfirm
    \/ RaiseExhausted
    \/ SaveFresh
    \/ SaveResume
    \/ StreamRead
    \/ StreamEnd
    \/ StreamFail

Spec == Init /\ [][Next]_vars

\* ------------------------------------------- save_download_response alone
\* The states in which the first seed was just answered with the file, for
\* every remote file and everything that may stand at output_path.
InitSave ==
    /\ DirIdle
    /\ pc = "save"
    /\ payload \in Payloads
    /\ seed_idx = 1
    /\ cookie_jar = <<>>
    /\ url = initial_urls(FileId)[1]
    /\ attempts = <<url>>
    /\ requests = <<Req(url, -1, "seed", "Attachment", <<>>, cookie_jar)>>
    /\ \E h \in {x \in ResolutionHeaders(Len(payload)) : is_download_response(x)} :
         /\ output_path = extract_filename(h, fallback_filename)
         /\ response = Some(ResponseOf(h, 200, payload))
    /\ fs \in {[n \in Names |-> IF n = output_path THEN c ELSE NoneVal] : c \in PriorFiles}
    /\ fs0 = fs
    /\ html_text = <<>>
    /\ parsed_url = NoneVal
    /\ confirm_token = NoneVal
    /\ confirm_idx = 1
    /\ existing_size = 0
    /\ append = FALSE
    /\ total_bytes = 0
    /\ downloaded = 0
    /\ last_reported_mb = -1
    /\ reports = <<>>
    /\ result = NoneVal
    /\ error = NoneVal

NextSave ==
    \/ SaveFresh
    \/ SaveResume
    \/ StreamRead
    \/ StreamEnd
    \/ StreamFail

SpecSave == InitSave /\ [][NextSave]_vars

\* ------------------------------------------------------------ the claims
LastRequest == requests[Len(requests)]
\* The range request was sent and answered with `outcome`.
RangeAnswered(outcome) ==
    requests # <<>> /\ LastRequest.via = "resume" /\ LastRequest.outcome = outcome
\* The content at output_path now, and before the run.
FileNow == fs[output_path]
FileBefore == fs0[output_path]

\* C1: whenever save_download_response returns, whatever stood at output_path
\* before, the file exists and its content is the complete remote payload.
C1_ReturnedFileIsPayload ==
    pc = "returned" => FileNow = Some(payload)

\* C2: with the first k bytes of the payload at output_path, 0 < k < S, the
\* response at hand is closed unread and the request is sent again, to the
\* same URL, with Range offset k; after the 206 answer the first k bytes stay
\* in place at every step, the file and the unread rest of the answer always
\* make up the payload, and on return the file is the payload (S bytes), as
\* it is after a download from scratch.
C2_ResumeIdempotence ==
    /\ ( /\ FileBefore # NoneVal
         /\ 0 < Len(FileBefore[1]) /\ Len(FileBefore[1]) < Len(payload)
         /\ IsPrefix(FileBefore[1], payload)
         /\ RangeAnswered("206") )
       => /\ LastRequest.range = Len(FileBefore[1])
          /\ LastRequest.url = requests[1].url
          /\ Len(requests) = 2
          /\ response[1].status = 206
          /\ append
          /\ FileNow # NoneVal
          /\ IsPrefix(FileBefore[1], FileNow[1])
          /\ FileNow[1] \o response[1].body = payload
          /\ (pc = "returned" => FileNow = Some(payload) /\ Len(FileNow[1]) = Len(payload))
    /\ (SizeOf(fs0, output_path) = 0 /\ pc = "returned") => FileNow = Some(payload)

C2_Witness ==
    /\ FileBefore # NoneVal /\ Len(FileBefore[1]) = 1 /\ Len(payload) = MaxSize
    /\ IsPrefix(FileBefore[1], payload)
    /\ RangeAnswered("206")
    /\ pc = "returned"
    /\ FileNow = Some(payload)

\* C3: when a file of N > 0 bytes is at output_path and the range request is
\* answered with HTTP 416, save_download_response returns output_path at
\* once and nothing in output_dir has changed.
C3_RangeNotSatisfiable ==
    RangeAnswered("416")
    => /\ pc = "returned"
       /\ result = Some(output_path)
       /\ error = NoneVal
       /\ fs = fs0
       /\ SizeOf(fs0, output_path) > 0

C3_Witness ==
    /\ RangeAnswered("416")
    /\ pc = "returned"
    /\ Len(FileBefore[1]) > Len(payload)
    /\ FileNow = FileBefore

\* C4 as stated: after any answer to the range request other than 206 and 416
\* the download restarts: the file is opened for writing from offset 0 and
\* holds bytes of that answer only.
C4_AnyOtherStatusRestarts ==
    (requests # <<>> /\ LastRequest.via = "resume"
       /\ LastRequest.outcome \notin {"206", "416", "URLError"})
    => /\ pc # "raised"
       /\ ~append
       /\ FileNow[1] \o response[1].body = payload

\* C4 amended: after a 200 answer to the range request the N bytes are gone:
\* the file is written from offset 0, never appended to, it holds bytes of
\* that answer only and on return it is that answer's body; after an HTTP
\* error other than 416 (404) the error is raised and output_dir is unchanged.
C4_RangeIgnoredRestarts ==
    /\ RangeAnswered("200")
       => /\ ~append
          /\ response[1].status = 200
          /\ FileNow[1] \o response[1].body = payload
          /\ (pc = "returned" => FileNow = Some(payload))
    /\ RangeAnswered("404")
       => /\ pc = "raised"
          /\ error = Some([type |-> "HTTPError", tried |-> NoneVal])
          /\ fs = fs0

C4_Witness ==
    /\ RangeAnswered("200")
    /\ pc = "returned"
    /\ FileBefore # NoneVal /\ Len(FileBefore[1]) > 0
    /\ ~IsPrefix(FileBefore[1], payload)
    /\ FileNow = Some(payload)

UrlsOf(log) == [i \in 1..Len(log) |-> log[i].url]
Exhausted == error # NoneVal /\ error[1].type = "RuntimeError"
Requested(i, via, s, u, outcome) ==
    /\ i <= Len(requests)
    /\ requests[i].via = via /\ requests[i].seed = s
    /\ requests[i].url = u /\ requests[i].outcome = outcome

\* C5: the URL list of the resolution-exhausted error is the sequence of the
\* URLs a GET was sent to, in the order of the requests, none dropped or added.
C5_ErrorListsEveryGet ==
    Exhausted => error[1].tried = Some(UrlsOf(requests))

C5_Witness ==
    /\ pc = "raised" /\ Exhausted
    /\ Len(requests) = 8
    /\ \E i, j \in 1..Len(requests) : i < j /\ requests[i].url = requests[j].url

\* C6: when the resolution-exhausted error is raised, both seeds were
\* requested and, for each seed, the direct URL parsed from its page (if one
\* was) and both confirm-token URLs (if the search found a token) were
\* requested, and every response was an Interstitial.
C6_ExhaustedOnlyAfterAllBranches ==
    Exhausted =>
      /\ \A i \in 1..Len(requests) : requests[i].outcome = "Interstitial"
      /\ \A s \in 1..2 :
           \E i \in 1..Len(requests) :
             /\ Requested(i, "seed", s, initial_urls(FileId)[s], "Interstitial")
             /\ LET page == requests[i].html
                    parsed == extract_download_url(page, FileId)
                    j == IF TruthyUrl(parsed) THEN i + 1 ELSE i
                IN  /\ TruthyUrl(parsed)
                         => Requested(i + 1, "direct", s, parsed[1], "Interstitial")
                    /\ j <= Len(requests)
                    /\ LET tok == extract_confirm_token(page, requests[j].jar)
                       IN  Truthy(tok) =>
                             /\ Requested(j + 1, "confirm", s,
                                          confirm_urls(tok[1], FileId)[1], "Interstitial")
                             /\ Requested(j + 2, "confirm", s,
                                          confirm_urls(tok[1], FileId)[2], "Interstitial")

C6_Witness ==
    /\ pc = "raised" /\ Exhausted
    /\ Cardinality({i \in 1..Len(requests) : requests[i].via = "confirm"}) = 4
    /\ Cardinality({i \in 1..Len(requests) : requests[i].via = "direct"}) = 1

\* C7 as stated: every failure of download_from_google_drive raises an error
\* that embeds the list of the URLs attempted so far.
C7_EveryFailureEmbedsAttempts ==
    pc = "raised" => error # NoneVal /\ error[1].tried = Some(attempts)

\* C7 amended: the resolution-exhausted failure raises an error that embeds
\* the full list of the URLs attempted; an error raised by a request (or by
\* reading the body) leaves the function as urllib raised it, with no list.
C7_OnlyExhaustionEmbedsAttempts ==
    pc = "raised" =>
      /\ error # NoneVal
      /\ IF LastRequest.outcome = "Interstitial"
         THEN error[1].type = "RuntimeError" /\ error[1].tried = Some(attempts)
                /\ Len(attempts) >= 2
         ELSE error[1].type \in {"URLError", "HTTPError"} /\ error[1].tried = NoneVal

C7_Witness ==
    /\ pc = "raised"
    /\ error[1].type = "URLError" /\ error[1].tried = NoneVal
    /\ LastRequest.via = "confirm"
    /\ Len(attempts) >= 3

\* C8 as stated: a transport error of a GET of the resolution propagates at
\* once, no request follows it, nothing is written to output_dir, and no URL
\* is requested twice within the resolution.
C8_TransportErrorNoRepeat ==
    \A i \in 1..Len(requests) :
      (requests[i].via # "resume" /\ requests[i].outcome = "URLError")
      => /\ i = Len(requests)
         /\ pc = "raised"
         /\ error = Some([type |-> "URLError", tried |-> NoneVal])
         /\ result = NoneVal
         /\ fs = fs0
         /\ \A a, b \in 1..Len(requests) : a < b => requests[a].url # requests[b].url

\* C8 amended: a transport error of a GET of the resolution propagates at
\* once as it was raised, the failed request is the last one sent (it is not
\* repeated and no other follows), and nothing is written to output_dir.
C8_TransportErrorIsFatal ==
    \A i \in 1..Len(requests) :
      (requests[i].via # "resume" /\ requests[i].outcome = "URLError")
      => /\ i = Len(requests)
         /\ pc = "raised"
         /\ error = Some([type |-> "URLError", tried |-> NoneVal])
         /\ result = NoneVal
         /\ fs = fs0

C8_Witness ==
    /\ pc = "raised"
    /\ LastRequest.via = "seed" /\ LastRequest.seed = 2
    /\ LastRequest.outcome = "URLError"
    /\ \E i \in 1..(Len(requests) - 1) : requests[i].url = LastRequest.url
    /\ fs = fs0

\* C9 as stated: confirm-token URLs are requested for a seed only when no
\* download URL was parsed from its page; after a direct URL that gave no
\* Attachment the next request is the next seed.
C9_ConfirmOnlyWithoutParsedUrl ==
    \A i \in 1..Len(requests) :
      /\ requests[i].via = "confirm"
           => ~\E j \in 1..Len(requests) :
                  requests[j].via = "direct" /\ requests[j].seed = requests[i].seed
      /\ (requests[i].via = "direct" /\ i < Len(requests))
           => requests[i + 1].via \in {"seed", "resume"}

\* C9 amended: for each seed answered with an Interstitial the confirm-token
\* search is made whether or not a download URL was parsed: when a direct
\* URL was parsed, after its response was found not to be an Attachment.  If
\* the search finds a token the next request is the first confirm-token URL
\* of the same seed, else the next seed.
C9_TokenSearchAlsoAfterDirect ==
    \A i \in 1..Len(requests) :
      (requests[i].via = "seed" /\ requests[i].outcome = "Interstitial")
      => LET page == requests[i].html
             parsed == extract_download_url(page, FileId)
             j == IF TruthyUrl(parsed) THEN i + 1 ELSE i
         IN  (j <= Len(requests) /\ requests[j].outcome = "Interstitial")
             => LET tok == extract_confirm_token(page, requests[j].jar)
                IN  IF j = Len(requests)
                    THEN IF Truthy(tok)
                         THEN pc = "confirm" /\ confirm_idx = 1 /\ confirm_token = tok
                         ELSE pc \in {"seed", "exhausted", "raised"}
                    ELSE IF Truthy(tok)
                         THEN /\ requests[j + 1].via = "confirm"
                              /\ requests[j + 1].seed = requests[i].seed
                              /\ requests[j + 1].url = confirm_urls(tok[1], FileId)[1]
                         ELSE requests[j + 1].via = "seed"

C9_Witness ==
    \E j \in 1..Len(requests) :
      /\ requests[j].via = "direct" /\ requests[j].outcome = "Interstitial"
      /\ j + 2 <= Len(requests)
      /\ requests[j + 1].via = "confirm" /\ requests[j + 2].via = "confirm"
      /\ requests[j + 2].seed = requests[j].seed

\* C10: a response is classified from its headers alone: Attachment when
\* Content-Disposition holds "attachment" in any case, whatever the
\* Content-Type, else Interstitial when Content-Type holds "text/html", else
\* Attachment.  The classification reads nothing of the body, and a body is
\* read as HTML only when the response was classified Interstitial.
C10_ClassifiedFromHeaders ==
    (requests # <<>> /\ LastRequest.outcome \in {"Attachment", "Interstitial"})
    => LET h == response[1].headers
       IN  /\ LastRequest.outcome =
                (IF h.cd \in CDsWithAttachment THEN "Attachment"
                 ELSE IF h.ct \in CTsWithTextHtml THEN "Interstitial"
                 ELSE "Attachment")
           /\ response[1].html_read => LastRequest.outcome = "Interstitial"
           /\ pc = "save" => ~response[1].html_read /\ response[1].body = payload

C10_Witness ==
    /\ pc = "save"
    /\ response[1].headers.cd \in CDsWithAttachment
    /\ response[1].headers.ct \in CTsWithTextHtml
    /\ LastRequest.outcome = "Attachment"
    /\ response[1].body = payload

\* ================================================= the directory of a model
\* A path is the sequence of its parts; target_dir is the directory main
\* hands to the flattener.  An entry of the tree is a directory or a file at
\* a path; id names the object itself (it stays the same when the object is
\* moved), so that a file found again is known to be the file of before.
target_dir == <<"target">>

PathParent(p) == SubSeq(p, 1, Len(p) - 1)
PathName(p) == p[Len(p)]
\* target_dir / name
PathJoin(d, name) == Append(d, name)
\* p is d or lies below d.
IsUnder(p, d) == Len(d) <= Len(p) /\ SubSeq(p, 1, Len(d)) = d

Entry(p, kind) == [path |-> p, kind |-> kind, id |-> p]
\* Path.exists()
PathExists(t, p) == \E e \in t : e.path = p
\* Path.iterdir(): the immediate children of directory d.
iterdir(t, d) == {e \in t : Len(e.path) = Len(d) + 1 /\ PathParent(e.path) = d}

\* dirname.startswith("fold_")
StartsWithFold(name) == name \in {"fold_0", "fold_1"}

\* The order of str on the names of the model.
NameRank(name) ==
    CASE name = "a" -> 1
      [] name = "b" -> 2
      [] name = "c" -> 3
      [] name = "dataset.json" -> 4
      [] name = "fold_0" -> 5
      [] name = "fold_1" -> 6
      [] name = "plans.json" -> 7
      [] name = "target" -> 8
      [] OTHER -> 9

\* str(a) < str(b) for two paths with the same number of parts.
StrLess(a, b) ==
    \E i \in 1..Len(a) :
       /\ \A j \in 1..(i - 1) : a[j] = b[j]
       /\ NameRank(a[i]) < NameRank(b[i])

\* The sort key (len(path.parts), str(path)) of find_nnunet_model_dir.
KeyLess(a, b) == Len(a) < Len(b) \/ (Len(a) = Len(b) /\ StrLess(a, b))

\* has_fold and has_plans of one directory met by os.walk.
HasSignature(t, d) ==
    /\ \E e \in iterdir(t, d) : e.kind = "dir" /\ StartsWithFold(PathName(e.path))
    /\ \E e \in iterdir(t, d) :
          e.kind = "file" /\ PathName(e.path) \in {"plans.json", "dataset.json"}

\* The candidate with the greatest sort key.
find_nnunet_model_dir_deepest(t, search_root) ==
    LET candidates == {e.path : e \in {x \in t : /\ x.kind = "dir"
                                                  /\ IsUnder(x.path, search_root)
                                                  /\ HasSignature(t, x.path)}}
    IN  IF candidates = {} THEN NoneVal
        ELSE Some(CHOOSE c \in candidates : \A o \in candidates \ {c} : KeyLess(o, c))

\* find_nnunet_model_dir: the shallowest directory at or below search_root
\* with the signature, the first by its string among equals; None if none.
find_nnunet_model_dir(t, search_root) ==
    LET candidates == {e.path : e \in {x \in t : /\ x.kind = "dir"
                                                  /\ IsUnder(x.path, search_root)
                                                  /\ HasSignature(t, x.path)}}
    IN  IF candidates = {} THEN NoneVal
        ELSE Some(CHOOSE c \in candidates : \A o \in candidates \ {c} : KeyLess(c, o))

\* No name is ever taken for a conflict.
destination_conflicts_none(t, dir) == {}

\* The names of the children of dir that exist in target_dir (lines 279-283).
destination_conflicts(t, dir) ==
    {PathName(child.path) : child \in
        {c \in iterdir(t, dir) : PathExists(t, PathJoin(target_dir, PathName(c.path)))}}

\* Only the entry at src itself is put at dst; what is below it stays behind.
Rename_entry_only(t, src, dst) ==
    {IF e.path = src THEN [e EXCEPT !.path = dst] ELSE e : e \in t}

\* os.rename on a tree: the object at src, with all below it, is put at dst.
Rename(t, src, dst) ==
    {IF IsUnder(e.path, src)
     THEN [e EXCEPT !.path = dst \o SubSeq(e.path, Len(src) + 1, Len(e.path))]
     ELSE e : e \in t}

KindAt(t, p) == (CHOOSE e \in t : e.path = p).kind

\* shutil.move(src, dst): into dst when dst is a directory (an error when the
\* name is taken there), over dst when both are files, an error when a
\* directory is to replace a file, and a plain rename when dst does not exist.
shutil_move(t, src, dst) ==
    IF ~PathExists(t, dst) THEN [ok |-> TRUE, tree |-> Rename(t, src, dst)]
    ELSE IF KindAt(t, dst) = "dir"
         THEN LET real_dst == PathJoin(dst, PathName(src))
              IN  IF PathExists(t, real_dst) THEN [ok |-> FALSE, tree |-> t]
                  ELSE [ok |-> TRUE, tree |-> Rename(t, src, real_dst)]
         ELSE IF KindAt(t, src) = "file"
              THEN [ok |-> TRUE,
                    tree |-> Rename({e \in t : e.path # dst}, src, dst)]
              ELSE [ok |-> FALSE, tree |-> t]

\* A directory removed whether or not it is empty.
rmdir_any(t, d) == [ok |-> TRUE, tree |-> {e \in t : ~IsUnder(e.path, d)}]

\* Path.rmdir(): OSError when the directory is not empty.
rmdir(t, d) ==
    IF iterdir(t, d) = {} THEN [ok |-> TRUE, tree |-> {e \in t : e.path # d}]
    ELSE [ok |-> FALSE, tree |-> t]

\* `while parent != target_dir`
PruneStops(p) == p = target_dir

\* The runs of the script on one target_dir, each calling the flattener first
\* (line 382).
MaxCalls == 2

downloadVars == <<pc, payload, fs, fs0, resolverVars, response, requests, writerVars,
                  result, error>>

\* main is outside download_from_google_drive.
DownloadIdle ==
    /\ pc = "main"
    /\ payload = <<>>
    /\ fs = [n \in Names |-> NoneVal]
    /\ fs0 = fs
    /\ seed_idx = 1
    /\ attempts = <<>>
    /\ cookie_jar = <<>>
    /\ html_text = <<>>
    /\ parsed_url = NoneVal
    /\ confirm_token = NoneVal
    /\ confirm_idx = 1
    /\ response = NoneVal
    /\ requests = <<>>
    /\ url = <<>>
    /\ output_path = fallback_filename
    /\ existing_size = 0
    /\ append = FALSE
    /\ total_bytes = 0
    /\ downloaded = 0
    /\ last_reported_mb = -1
    /\ reports = <<>>
    /\ result = NoneVal
    /\ error = NoneVal

\* What may lie at and below target_dir: every set of these paths that holds
\* target_dir and, with a path, its parent.
TreePaths ==
    LET t == target_dir
        a == PathJoin(t, "a")
        b == PathJoin(a, "b")
        c == PathJoin(t, "c")
    IN  {t, a, b, c}
        \cup {PathJoin(t, n) : n \in {"fold_0", "plans.json", "x"}}
        \cup {PathJoin(a, n) : n \in {"fold_0", "plans.json", "x"}}
        \cup {PathJoin(b, n) : n \in {"fold_1", "plans.json", "x"}}
        \cup {PathJoin(PathJoin(b, "fold_1"), "w")}
        \cup {PathJoin(c, n) : n \in {"fold_0", "dataset.json"}}

KindOf(name) ==
    IF name \in {"target", "a", "b", "c", "fold_0", "fold_1"} THEN "dir" ELSE "file"

Trees ==
    {{Entry(p, KindOf(PathName(p))) : p \in ps} :
        ps \in {q \in SUBSET TreePaths :
                  /\ target_dir \in q
                  /\ \A p \in q : p = target_dir \/ PathParent(p) \in q}}

\* One move or removal as the log keeps it.
Op(name, src, dst) == [op |-> name, src |-> src, dst |-> dst]

\* The value flatten_model_dir_if_needed returns, and the end of the call.
FlattenReturns(value) ==
    /\ returns' = Append(returns, value)
    /\ fpc' = "done"

\* Lines 273-287: the search, the two early returns and the conflict check.
FlattenEnter ==
    /\ fpc = "call"
    /\ model_dir' = find_nnunet_model_dir(tree, target_dir)
    /\ IF model_dir' = NoneVal THEN FlattenReturns(NoneVal)
       ELSE IF model_dir'[1] = target_dir THEN FlattenReturns(model_dir')
       ELSE IF destination_conflicts(tree, model_dir'[1]) # {}
            THEN FlattenReturns(model_dir')
            ELSE fpc' = "move" /\ returns' = returns
    /\ UNCHANGED <<mainVars, downloadVars, archiveVars, tree, tree0, parent, ops>>

\* Lines 289-290: one child of model_dir is moved into target_dir.
FlattenMove ==
    /\ fpc = "move"
    /\ \E child \in iterdir(tree, model_dir[1]) :
         LET dst == PathJoin(target_dir, PathName(child.path))
             moved == shutil_move(tree, child.path, dst)
         IN  /\ tree' = moved.tree
             /\ ops' = Append(ops, Op("move", child.path, dst))
             /\ fpc' = IF moved.ok THEN "move" ELSE "raised"
    /\ UNCHANGED <<mainVars, downloadVars, archiveVars, tree0, model_dir, parent, returns>>

\* Line 292: every child was moved; the pruning starts at model_dir.
FlattenMoved ==
    /\ fpc = "move"
    /\ iterdir(tree, model_dir[1]) = {}
    /\ parent' = model_dir[1]
    /\ fpc' = "prune"
    /\ UNCHANGED <<mainVars, downloadVars, archiveVars, tree, tree0, model_dir, ops, returns>>

\* Lines 293-298: one round of the pruning loop.
FlattenPrune ==
    /\ fpc = "prune"
    /\ IF PruneStops(parent)
       THEN fpc' = "refind" /\ UNCHANGED <<tree, parent, ops>>
       ELSE LET removed == rmdir(tree, parent)
            IN  IF removed.ok
                THEN /\ tree' = removed.tree
                     /\ ops' = Append(ops, Op("rmdir", parent, parent))
                     /\ parent' = PathParent(parent)
                     /\ fpc' = "prune"
                ELSE fpc' = "refind" /\ UNCHANGED <<tree, parent, ops>>
    /\ UNCHANGED <<mainVars, downloadVars, archiveVars, tree0, model_dir, returns>>

\* Line 302: the search is run again and its result returned.
FlattenRefind ==
    /\ fpc = "refind"
    /\ FlattenReturns(find_nnunet_model_dir(tree, target_dir))
    /\ UNCHANGED <<mainVars, downloadVars, archiveVars, tree, tree0, model_dir, parent, ops>>

\* The script is run again: main calls the flattener on the same target_dir.
FlattenAgain ==
    /\ fpc = "done"
    /\ Len(returns) < MaxCalls
    /\ fpc' = "call"
    /\ tree0' = tree
    /\ ops' = <<>>
    /\ UNCHANGED <<mainVars, downloadVars, archiveVars, tree, model_dir, parent, returns>>

InitFlatten ==
    /\ DownloadIdle
    /\ tree \in Trees
    /\ tree0 = tree
    /\ fpc = "call"
    /\ model_dir = NoneVal
    /\ parent = <<>>
    /\ ops = <<>>
    /\ returns = <<>>
    /\ NoArchive
    /\ MainFirstJob

NextFlatten ==
    \/ FlattenEnter
    \/ FlattenMove
    \/ FlattenMoved
    \/ FlattenPrune
    \/ FlattenRefind
    \/ FlattenAgain

SpecFlatten == InitFlatten /\ [][NextFlatten]_vars

\* --------------------------------------------------- claims on the flattener
\* The directory the call in hand found when it began, and whether it lies
\* strictly below target_dir.
FoundAtCall == find_nnunet_model_dir(tree0, target_dir)
FoundNested == FoundAtCall # NoneVal /\ FoundAtCall[1] # target_dir
\* A child of the found directory has the name of an entry of target_dir.
Collision ==
    /\ FoundNested
    /\ \E child \in iterdir(tree0, FoundAtCall[1]) :
          PathExists(tree0, PathJoin(target_dir, PathName(child.path)))
LastReturn == returns[Len(returns)]

\* C11: when a child of the nested directory found has the name of an entry
\* directly in target_dir, the call moves nothing, removes nothing and
\* overwrites nothing: the tree stays as it was at every step of the call,
\* and the call returns the nested directory.
C11_CollisionSafety ==
    Collision =>
       /\ tree = tree0
       /\ ops = <<>>
       /\ fpc \in {"call", "done"}
       /\ (fpc = "done" => LastReturn = FoundAtCall)

C11_Witness ==
    /\ Collision
    /\ fpc = "done"
    /\ Len(returns) = 1
    /\ LastReturn = FoundAtCall
    /\ Len(FoundAtCall[1]) = 3

\* A call after the first is in hand or has ended.
InLaterCall == Len(returns) >= 2 \/ (Len(returns) = 1 /\ fpc # "done")

\* C12: for every tree, a call of the flattener after the first one on the
\* same target_dir moves nothing and removes nothing (the tree stays as the
\* call found it) and returns what the first call returned; on a target_dir
\* that is flat already every call returns target_dir and changes nothing.
C12_FlattenIdempotence ==
    /\ InLaterCall => /\ tree = tree0
                      /\ ops = <<>>
                      /\ fpc \in {"call", "done"}
    /\ \A i \in 2..Len(returns) : returns[i] = returns[1]
    /\ (FoundAtCall = Some(target_dir) /\ ~InLaterCall) =>
          /\ tree = tree0
          /\ ops = <<>>
          /\ (fpc = "done" => LastReturn = Some(target_dir))

C12_Witness ==
    /\ fpc = "done"
    /\ Len(returns) = 2
    /\ returns[2] = Some(target_dir)
    /\ \E e \in tree : e.id # e.path
    /\ \E e \in tree : Len(e.path) > 2

\* ================================================ the archive of a download
\* The bytes of a file as zipfile and tarfile see them: for each of the two
\* containers, the members read from it, or None when the bytes are not such
\* a container.  A member is the path of a file relative to the directory
\* extracted into.
is_zipfile(c) == c.zip # NoneVal
is_tarfile(c) == c.tar # NoneVal

\* extractall(target_dir): every member is written below target_dir, over a
\* file that is there already, and the directories above it are made.
extractall(t, members) ==
    LET files == {[path |-> target_dir \o m, kind |-> "file", id |-> <<"archive">> \o m] :
                     m \in members}
        above == UNION {{SubSeq(f.path, 1, k) : k \in (Len(target_dir) + 1)..(Len(f.path) - 1)} :
                          f \in files}
        kept == {e \in t : \A f \in files : f.path # e.path}
    IN  kept \cup files \cup {Entry(d, "dir") : d \in {x \in above : ~PathExists(t, x)}}

\* The archive told by the suffix of its name.
extract_archive_if_supported_by_suffix(t, path, c) ==
    IF PathName(path) = "w.zip"
    THEN [result |-> TRUE,
          tree |-> extractall(t, IF is_zipfile(c) THEN c.zip[1] ELSE {})]
    ELSE [result |-> FALSE, tree |-> t]

\* extract_archive_if_supported: the result and the tree it leaves.
extract_archive_if_supported(t, path, c) ==
    IF is_zipfile(c) THEN [result |-> TRUE, tree |-> extractall(t, c.zip[1])]
    ELSE IF is_tarfile(c) THEN [result |-> TRUE, tree |-> extractall(t, c.tar[1])]
    ELSE [result |-> FALSE, tree |-> t]

\* Path.unlink(missing_ok=True)
unlink(t, p) == {e \in t : e.path # p}

\* The files a container of the model may hold.
MemberSets ==
    SUBSET {<<"m", "fold_0", "w">>, <<"m", "plans.json">>, <<"x">>}
Contents ==
    {[zip |-> z, tar |-> r] : z, r \in {NoneVal} \cup {Some(m) : m \in MemberSets}}
\* The names under which the file may have been saved.
ArchiveNames == {"w.zip", "blob"}
\* What target_dir may hold besides the file.
ArchiveTrees(name) ==
    {{Entry(target_dir, "dir"), Entry(PathJoin(target_dir, name), "file")} \cup extra :
        extra \in SUBSET {Entry(PathJoin(target_dir, "x"), "file"),
                          Entry(PathJoin(target_dir, "m"), "dir")}}

\* Line 408 (and 388-394): unless --no-extract was given, the file is handed
\* to extract_archive_if_supported.
MainExtract ==
    /\ fpc = "extract"
    /\ IF no_extract
       THEN /\ fpc' = "normalised"
            /\ UNCHANGED <<tree, extracted>>
       ELSE LET r == extract_archive_if_supported(tree, archive_path[1], contents)
            IN  /\ extracted' = Some(r.result)
                /\ tree' = r.tree
                /\ fpc' = "extracted"
    /\ UNCHANGED <<mainVars, downloadVars, tree0, model_dir, parent, ops, returns, archive_path,
                   contents, no_extract>>

\* Lines 408-409 (and 394-395): the file is unlinked when the result was True.
MainUnlink ==
    /\ fpc = "extracted"
    /\ tree' = IF extracted[1] THEN unlink(tree, archive_path[1]) ELSE tree
    /\ fpc' = "normalised"
    /\ UNCHANGED <<mainVars, downloadVars, tree0, model_dir, parent, ops, returns, archiveVars>>

InitArchive ==
    /\ DownloadIdle
    /\ \E name \in ArchiveNames :
          /\ archive_path = Some(PathJoin(target_dir, name))
          /\ tree \in ArchiveTrees(name)
    /\ contents \in Contents
    /\ no_extract \in BOOLEAN
    /\ extracted = NoneVal
    /\ tree0 = tree
    /\ fpc = "extract"
    /\ model_dir = NoneVal
    /\ parent = <<>>
    /\ ops = <<>>
    /\ returns = <<>>
    /\ MainFirstJob

NextArchive ==
    \/ MainExtract
    \/ MainUnlink

SpecArchive == InitArchive /\ [][NextArchive]_vars

\* The members main has extracted when the file is a container: those of the
\* zip when it is one, else those of the tar.
MembersRead ==
    IF contents.zip # NoneVal THEN contents.zip[1]
    ELSE IF contents.tar # NoneVal THEN contents.tar[1]
    ELSE {}
Recognised == contents.zip # NoneVal \/ contents.tar # NoneVal
ArchiveThere == \E e \in tree : e.path = archive_path[1]
\* Every member read is a file below target_dir with the bytes of the archive.
MembersInPlace ==
    \A m \in MembersRead :
       \E e \in tree : /\ e.path = target_dir \o m
                       /\ e.kind = "file"
                       /\ e.id = <<"archive">> \o m

\* C13: unless extraction is switched off, a file whose bytes are a zip or a
\* tar container has its members extracted into target_dir with result True
\* and is gone once line 409 (395) has run; a file whose bytes are neither
\* gives result False and the whole tree, the file included, stays as it
\* was.  The file is absent only after an extraction with result True.
C13_ArchiveNormalization ==
    /\ (~no_extract /\ Recognised /\ fpc \in {"extracted", "normalised"}) =>
          /\ extracted = Some(TRUE)
          /\ MembersInPlace
          /\ (fpc = "normalised" <=> ~ArchiveThere)
    /\ (~no_extract /\ ~Recognised /\ fpc \in {"extracted", "normalised"}) =>
          /\ extracted = Some(FALSE)
          /\ tree = tree0
    /\ ~ArchiveThere => (extracted = Some(TRUE) /\ MembersInPlace)
    /\ no_extract => tree = tree0

C13_Witness ==
    /\ fpc = "normalised"
    /\ contents.zip = NoneVal
    /\ contents.tar # NoneVal
    /\ Cardinality(MembersRead) = 3
    /\ PathName(archive_path[1]) = "blob"
    /\ ~ArchiveThere
    /\ MembersInPlace

\* ===================================================== the jobs of main
\* The store of the call before kept for the next call.
CookieJar_kept(previous) == previous

\* cookie_jar = CookieJar() (line 206): a new store, empty whatever the store
\* of the call before held.
CookieJar(previous) == <<>>

\* Lines 379 and 405: the download of one job returned and main calls
\* download_from_google_drive for the next job (the extraction and the
\* flattening between the two calls touch none of what the call reads).
NextJob ==
    /\ pc = "returned"
    /\ job < Len(jobs)
    /\ job' = job + 1
    /\ jars' = Append(jars, cookie_jar)
    /\ cookie_jar' = CookieJar(cookie_jar)
    /\ pc' = "seed"
    /\ fs' \in {[n \in Names |-> IF n = fallback_filename THEN c ELSE NoneVal] :
                  c \in {NoneVal, Some(Prefix(payload, 1))}}
    /\ fs0' = fs'
    /\ seed_idx' = 1
    /\ attempts' = <<>>
    /\ html_text' = <<>>
    /\ parsed_url' = NoneVal
    /\ confirm_token' = NoneVal
    /\ confirm_idx' = 1
    /\ response' = NoneVal
    /\ requests' = <<>>
    /\ url' = <<>>
    /\ output_path' = fallback_filename
    /\ existing_size' = 0
    /\ append' = FALSE
    /\ total_bytes' = 0
    /\ downloaded' = 0
    /\ last_reported_mb' = -1
    /\ reports' = <<>>
    /\ result' = NoneVal
    /\ error' = NoneVal
    /\ UNCHANGED <<payload, dirVars>>

NextJobs ==
    \/ RequestSeed
    \/ RequestDirect
    \/ RequestConfirm
    \/ RaiseExhausted
    \/ SaveFresh
    \/ SaveResume
    \/ StreamRead
    \/ StreamEnd
    \/ StreamFail
    \/ NextJob

SpecJobs == Init /\ [][NextJobs]_vars

\* The warning cookie is in a store.
HasWarning(jar) == \E i \in 1..Len(jar) : IsWarningCookie(jar[i])

\* C14: every call of download_from_google_drive begins with an empty cookie
\* store of its own: its first request sends no cookie, every later request
\* of the call (the range request too) sends exactly the cookies held after
\* the answer before it, and a confirm token taken from a cookie is the
\* value of a cookie that an answer of this very call set; nothing of the
\* store of an earlier job is seen.
C14_SessionIsolation ==
    /\ requests = <<>> => cookie_jar = <<>>
    /\ requests # <<>> => requests[1].sent = <<>>
    /\ \A i \in 1..(Len(requests) - 1) : requests[i + 1].sent = requests[i].jar
    /\ requests # <<>> => cookie_jar = LastRequest.jar
    /\ (Truthy(confirm_token) /\ confirm_token[1] = WARNING_COOKIE.value) =>
          \E i \in 1..Len(requests) :
             HasWarning(requests[i].jar) /\ ~HasWarning(requests[i].sent)

\* The first job ended with the warning cookie in its store; the second job
\* has asked for its seed without it and went on to the range request.
C14_Witness ==
    /\ job = 2
    /\ HasWarning(jars[1])
    /\ Len(requests) >= 2
    /\ requests[1].sent = <<>>
    /\ ~HasWarning(cookie_jar)
    /\ LastRequest.via = "resume"

\* ==================================================== the parsers alone
\* The longest page of the pages the parsers are tried on.
MaxElems == 3

RAW_DIRECT_2 == <<"https:", "//", "alt.example", "?", "confirm", "=", "t2", "&amp;", "x">>
ParseElements ==
    { El("text", "", ""),
      El("json", "downloadUrl", RAW_DIRECT),
      El("json", "downloadUrl", RAW_DIRECT_2),
      El("form", "download-form", <<HOST_USERCONTENT, "&amp;", "\\/">>),
      El("form", "other-form", <<HOST_UC>>),
      El("hidden", "id", "OTHERID"),
      El("hidden", "q", "&amp;"),
      El("hidden", "q", "a b"),
      El("hidden", "confirm", "th"),
      El("cq", "confirm", "t2") }
ParsePages == UNION {[1..n -> ParseElements] : n \in 0..MaxElems}
ParseJars == {<<>>, <<OTHER_COOKIE>>, <<OTHER_COOKIE, WARNING_COOKIE>>,
              <<WARNING_COOKIE, [name |-> <<"download_warning", "_2_">>, value |-> "t2"]>>}

\* parsed_url = extract_download_url(html_text, file_id)
ParseUrl ==
    /\ pc = "parse"
    /\ parsed_url' = extract_download_url(html_text, FileId)
    /\ pc' = "parsed_url"
    /\ UNCHANGED <<payload, fs, fs0, seed_idx, attempts, cookie_jar, html_text,
                   confirm_token, confirm_idx, response, requests, writerVars, result,
                   error, dirVars, mainVars>>

\* confirm_token = extract_confirm_token(html_text, cookie_jar)
ParseToken ==
    /\ pc = "parsed_url"
    /\ confirm_token' = extract_confirm_token(html_text, cookie_jar)
    /\ pc' = "parsed"
    /\ UNCHANGED <<payload, fs, fs0, seed_idx, attempts, cookie_jar, html_text,
                   parsed_url, confirm_idx, response, requests, writerVars, result,
                   error, dirVars, mainVars>>

InitParse ==
    /\ DirIdle
    /\ pc = "parse"
    /\ html_text \in ParsePages
    /\ cookie_jar \in ParseJars
    /\ payload = <<>>
    /\ fs = [n \in Names |-> NoneVal]
    /\ fs0 = fs
    /\ seed_idx = 1
    /\ attempts = <<>>
    /\ parsed_url = NoneVal
    /\ confirm_token = NoneVal
    /\ confirm_idx = 1
    /\ response = NoneVal
    /\ requests = <<>>
    /\ url = <<>>
    /\ output_path = fallback_filename
    /\ existing_size = 0
    /\ append = FALSE
    /\ total_bytes = 0
    /\ downloaded = 0
    /\ last_reported_mb = -1
    /\ reports = <<>>
    /\ result = NoneVal
    /\ error = NoneVal

NextParse ==
    \/ ParseUrl
    \/ ParseToken

SpecParse == InitParse /\ [][NextParse]_vars

\* The places of the page with a "downloadUrl" field, with a download-form,
\* and with a hidden input that has a name.
DirectAt == {i \in 1..Len(html_text) :
               /\ html_text[i].tag = "json" /\ html_text[i].name = "downloadUrl"
               /\ html_text[i].value # <<>>}
FormAt == {i \in 1..Len(html_text) :
             /\ html_text[i].tag = "form" /\ html_text[i].name = "download-form"
             /\ html_text[i].value # <<>>}
HiddenAt == {i \in 1..Len(html_text) :
               html_text[i].tag = "hidden" /\ html_text[i].name # ""}
First(places) == CHOOSE i \in places : \A j \in places : i <= j
Last(places) == CHOOSE i \in places : \A j \in places : i >= j

\* The name=value pairs of the query of a URL, as written in it.
QueryPairs(u) ==
    LET q == SubSeq(u, IndexOf(<<"?">>, u) + 1, Len(u))
    IN  {<<q[i - 1], q[i + 1]>> : i \in {j \in 2..(Len(q) - 1) : q[j] = "="}}

\* The pairs the hidden inputs of the page give (the last input of a name
\* wins) and the two defaults, each only for a name no hidden input has.
ExpectedPairs ==
    {<<QuotePlus(html_text[i].name), QuotePlus(HtmlUnescape(html_text[i].value))>> :
        i \in {k \in HiddenAt :
                 k = Last({j \in HiddenAt : html_text[j].name = html_text[k].name})}}
    \cup (IF \E i \in HiddenAt : html_text[i].name = "id" THEN {} ELSE {<<"id", FileId>>})
    \cup (IF \E i \in HiddenAt : html_text[i].name = "export" THEN {}
          ELSE {<<"export", "download">>})

\* C15: extract_download_url returns the decoded value of the first
\* "downloadUrl" field when the page has one, whatever else the page holds;
\* else, when the page has a download-form with an action, the unescaped
\* action, "?" and as query the pairs of the hidden inputs with id and export
\* added only when no hidden input has that name; else nothing.
\* extract_confirm_token returns the value of the first warning cookie when
\* the store holds one, whatever the page holds.
C15_ParserPriority ==
    /\ pc \in {"parsed_url", "parsed"} =>
          IF DirectAt # {}
          THEN parsed_url = Some(decode_possible_url(html_text[First(DirectAt)].value))
          ELSE IF FormAt # {}
          THEN LET action == html_text[First(FormAt)].value
                   u == parsed_url[1]
               IN  /\ parsed_url # NoneVal
                   /\ SubSeq(u, 1, Len(action)) =
                         [i \in 1..Len(action) |-> HtmlUnescape(action[i])]
                   /\ u[Len(action) + 1] = "?"
                   /\ QueryPairs(u) = ExpectedPairs
                   /\ Len(u) = Len(action) + 4 * Cardinality(ExpectedPairs)
          ELSE parsed_url = NoneVal
    /\ pc = "parsed" =>
          LET warn == {i \in 1..Len(cookie_jar) : cookie_jar[i].name[1] = "download_warning"}
          IN  warn # {} => confirm_token = Some(cookie_jar[First(warn)].value)

\* A page with a confirm pattern, a download-form and a "downloadUrl" field
\* last, and a store with the warning cookie: field and cookie win.
C15_Witness ==
    /\ pc = "parsed"
    /\ Len(html_text) = 3
    /\ html_text[1].tag = "cq"
    /\ html_text[2].tag = "form" /\ html_text[2].name = "download-form"
    /\ html_text[3].tag = "json"
    /\ parsed_url = Some(decode_possible_url(html_text[3].value))
    /\ confirm_token = Some("tc")
    /\ cookie_jar[1] = OTHER_COOKIE

\* ------------------------------------------------- claims on the resolver
\* The places of the log with a request of the resolution, and those whose
\* answer was classified Attachment.
ResolutionAt == {i \in 1..Len(requests) : requests[i].via # "resume"}
AttachmentAt == {i \in 1..Len(requests) : requests[i].outcome = "Attachment"}

\* C16: the first request is for the first seed and the seeds come in their
\* order; the second seed is requested only after every request before it
\* was answered with an interstitial; after the answer classified Attachment
\* no further request of the resolution is made (only the range request
\* can follow), and the URL handed to the writer, and sent again with the
\* Range header, is the URL of the request that got the Attachment.
C16_OrderAndEarlyExit ==
    /\ requests # <<>> =>
          /\ requests[1].via = "seed"
          /\ requests[1].seed = 1
          /\ requests[1].url = initial_urls(FileId)[1]
    /\ \A i, j \in ResolutionAt : i < j => requests[i].seed <= requests[j].seed
    /\ \A i \in ResolutionAt :
          requests[i].via = "seed" =>
             /\ requests[i].url = initial_urls(FileId)[requests[i].seed]
             /\ \A j \in 1..(i - 1) : requests[j].seed < requests[i].seed
    /\ \A i \in ResolutionAt :
          requests[i].seed = 2 =>
             \A j \in 1..(i - 1) :
                requests[j].seed = 1 => requests[j].outcome = "Interstitial"
    /\ \A i \in AttachmentAt :
          /\ \A j \in (i + 1)..Len(requests) : requests[j].via = "resume"
          /\ pc \in {"save", "stream", "returned", "raised"}
          /\ url = requests[i].url
          /\ \A j \in (i + 1)..Len(requests) : requests[j].url = requests[i].url
    /\ pc \in {"save", "stream", "returned"} => AttachmentAt # {}
    /\ Cardinality(AttachmentAt) <= 1

\* The second confirm URL of the second seed gave the file, which was on disk
\* in part, and the range request went to that URL.
C16_Witness ==
    /\ pc = "returned"
    /\ Len(requests) >= 4
    /\ requests[Len(requests) - 1].outcome = "Attachment"
    /\ requests[Len(requests) - 1].via = "confirm"
    /\ requests[Len(requests) - 1].seed = 2
    /\ requests[Len(requests) - 1].url = confirm_urls(confirm_token[1], FileId)[2]
    /\ LastRequest.via = "resume"
    /\ LastRequest.url = url

\* The run under the assumption that the call keeps taking steps: every
\* opener.open and every read returns or raises.
SpecLive == Spec /\ WF_vars(Next)

\* The requests of the resolution made for seed s by way of `via`.
GetsOf(s, via) == {i \in ResolutionAt : requests[i].seed = s /\ requests[i].via = via}
\* The place of a request in the fixed order of the search.
StageOf(via) == CASE via = "seed" -> 1 [] via = "direct" -> 2 [] OTHER -> 3
\* At most 8 GETs of the resolution: per seed one for the seed, at most one
\* for a parsed URL and at most two, for different URLs, with the token; and
\* a later request is never for an earlier place of the search.
BoundedSearch ==
    /\ Cardinality(ResolutionAt) <= 8
    /\ Len(attempts) <= 8
    /\ \A s \in 1..2 :
          /\ Cardinality(GetsOf(s, "seed")) <= 1
          /\ Cardinality(GetsOf(s, "direct")) <= 1
          /\ Cardinality(GetsOf(s, "confirm")) <= 2
          /\ \A i, j \in GetsOf(s, "confirm") : i # j => requests[i].url # requests[j].url
    /\ \A i \in ResolutionAt : requests[i].seed \in 1..2
    /\ \A i, j \in ResolutionAt :
          i < j => \/ requests[i].seed < requests[j].seed
                   \/ /\ requests[i].seed = requests[j].seed
                      /\ StageOf(requests[i].via) <= StageOf(requests[j].via)
\* The resolution is over: the file was handed to the writer or the call failed.
ResolutionOver == pc \in {"save", "stream", "returned", "raised"}

Ids(t) == {e.id : e \in t}
RmdirAt == {i \in 1..Len(ops) : ops[i].op = "rmdir"}
MoveAt == {i \in 1..Len(ops) : ops[i].op = "move"}

\* What holds of the removals of a call at every moment: target_dir is there;
\* every removal came after every move, when the found directory had no
\* child left; the directories removed are the found directory and the ones
\* above it, below target_dir, one after the other; nothing else is gone;
\* and nothing that was in a removed directory is gone with it.
PruneInv ==
    /\ PathExists(tree, target_dir)
    /\ \A i \in RmdirAt :
          /\ \A j \in MoveAt : j < i
          /\ Cardinality(MoveAt) = Cardinality(iterdir(tree0, model_dir[1]))
          /\ ops[i].src # target_dir
          /\ IsUnder(ops[i].src, target_dir)
          /\ IsUnder(model_dir[1], ops[i].src)
          /\ Len(ops[i].src) = Len(model_dir[1]) - (i - Cardinality(MoveAt) - 1)
          /\ ~PathExists(tree, ops[i].src)
    /\ Ids(tree0) \ Ids(tree) = {ops[i].src : i \in RmdirAt}

\* One step of the call: outside the pruning loop nothing is removed; in it,
\* the directory in hand is removed exactly when it is not target_dir and is
\* empty, and the loop then goes on with the directory above; otherwise the
\* loop ends and the tree stays as it is.
PruneStep ==
    /\ fpc # "prune" => Ids(tree') = Ids(tree)
    /\ fpc = "prune" =>
          IF parent # target_dir /\ iterdir(tree, parent) = {}
          THEN /\ tree' = {e \in tree : e.path # parent}
               /\ parent' = PathParent(parent)
               /\ fpc' = "prune"
          ELSE tree' = tree /\ fpc' = "refind"
    /\ (fpc # "prune" /\ fpc' = "prune") =>
          /\ iterdir(tree, model_dir[1]) = {}
          /\ parent' = model_dir[1]

\* C18: after every child of the found directory was moved into target_dir,
\* directories are removed going up from the found directory only while the
\* directory in hand is empty, until the first one that is not empty or
\* until target_dir; target_dir is never removed, no directory that is not
\* empty is removed, and none off the path from the found directory up to
\* target_dir.
C18_Pruning == [](PruneInv) /\ [][PruneStep]_vars

\* The found directory target/a/b was removed and the loop ended at target/a,
\* which still holds an entry.
C18_Witness ==
    /\ fpc = "refind"
    /\ Len(model_dir[1]) = 3
    /\ Cardinality(RmdirAt) = 1
    /\ parent = PathParent(model_dir[1])
    /\ iterdir(tree, parent) # {}
    /\ ~PathExists(tree, model_dir[1])

\* ------------------------------------------------ claims on the progress
\* stream_download_to_file was entered (a return after HTTPError 416 never
\* enters it).
Streaming == pc = "stream" \/ (pc = "returned" /\ ~RangeAnswered("416"))
\* initial_bytes of the call
InitialBytes == IF append THEN existing_size ELSE 0
\* The bytes the call is to leave in the file: with append the file as it
\* was and the body of the 206 answer, else the body alone.
ToBeWritten ==
    IF append THEN FileBefore[1] \o SubSeq(payload, existing_size + 1, Len(payload))
    ELSE payload
\* The file and the unread rest of the body make up ToBeWritten, whatever
\* Content-Length said.
Observational == FileNow # NoneVal /\ FileNow[1] \o response[1].body = ToBeWritten
\* The total of every progress line: 0 without a usable Content-Length, else
\* Content-Length, plus the bytes on disk when appending.
TotalOfProgress ==
    LET cl == response[1].headers.cl
        expected == IF cl = <<>> THEN 0
                    ELSE IF append /\ cl[1] > 0 THEN cl[1] + existing_size
                    ELSE cl[1]
    IN  /\ total_bytes = expected
        /\ \A i \in 1..Len(reports) : reports[i].of = expected
        /\ (response[1].status = 206 /\ cl # <<>>) => expected = Len(ToBeWritten)

\* C19 as stated: the number of progress lines is the number of whole MiB
\* transferred, downloaded - initial_bytes; the file does not depend on
\* Content-Length; the total of a 206 resume is Content-Length plus the
\* bytes on disk.
C19_ExactlyOncePerMiB ==
    Streaming =>
       /\ Len(reports) = (downloaded - InitialBytes) \div MiB
       /\ Observational
       /\ TotalOfProgress

\* C19, amended: a progress line is printed after the first chunk, whatever
\* its size, and after every chunk that changes the count of whole MiB of
\* `downloaded`, which counts the bytes on disk before an append; so the
\* lines show consecutive counts up to downloaded div MiB, each once, and
\* their number is the number of whole MiB transferred or up to two more
\* (one for the first chunk, one when the bytes on disk and the bytes
\* transferred together pass a MiB mark that the bytes transferred alone
\* do not).
\* The file does not depend on Content-Length, and the total of a 206
\* resume is Content-Length plus the bytes on disk.
C19_OncePerMiBCount ==
    Streaming =>
       /\ (reports = <<>>) <=> (downloaded = InitialBytes)
       /\ reports # <<>> =>
             /\ reports[1].mb \in {InitialBytes \div MiB, InitialBytes \div MiB + 1}
             /\ \A i \in 1..(Len(reports) - 1) : reports[i + 1].mb = reports[i].mb + 1
             /\ reports[Len(reports)].mb = downloaded \div MiB
             /\ last_reported_mb = downloaded \div MiB
             /\ Len(reports) = downloaded \div MiB - reports[1].mb + 1
             /\ Len(reports) - (downloaded - InitialBytes) \div MiB \in {0, 1, 2}
       /\ Observational
       /\ TotalOfProgress

\* A 206 resume that transferred less than one MiB and printed one line, with
\* the whole file as total.
C19_Witness ==
    /\ pc = "returned"
    /\ append
    /\ response[1].status = 206
    /\ response[1].headers.cl # <<>>
    /\ downloaded - existing_size < MiB
    /\ Len(reports) = 1
    /\ reports[1].of = Len(payload)
    /\ reports[1].of = response[1].headers.cl[1] + existing_size
    /\ FileNow = Some(ToBeWritten)

\* ------------------------------------------- claims on a flatten that moved
\* The first call has ended after finding a directory strictly below
\* target_dir none of whose children has the name of an entry of target_dir.
FlattenedFree == fpc = "done" /\ Len(returns) = 1 /\ FoundNested /\ ~Collision
\* What lies at or below p, by object and by place relative to p.
Below(t, p) ==
    {[id |-> e.id, kind |-> e.kind, rel |-> SubSeq(e.path, Len(p) + 1, Len(e.path))] :
        e \in {x \in t : IsUnder(x.path, p)}}
\* Every child of the found directory is now a child of target_dir of the
\* same name, with all it held.
ChildrenMoved ==
    \A c \in iterdir(tree0, FoundAtCall[1]) :
       Below(tree, PathJoin(target_dir, PathName(c.path))) = Below(tree0, c.path)
\* target_dir has a directory fold_* and a file plans.json or dataset.json.
TargetHasSignature ==
    /\ \E e \in tree : /\ PathParent(e.path) = target_dir /\ e.kind = "dir"
                       /\ PathName(e.path) \in {"fold_0", "fold_1"}
    /\ \E e \in tree : /\ PathParent(e.path) = target_dir /\ e.kind = "file"
                       /\ PathName(e.path) \in {"plans.json", "dataset.json"}
\* The entry of target_dir on the way down to the found directory.
TopOfFound == SubSeq(FoundAtCall[1], 1, Len(target_dir) + 1)

\* C20 as stated: after a flatten without collision of a directory found
\* strictly below target_dir the call returns target_dir, the children of the
\* found directory are children of target_dir, every entry that was directly
\* in target_dir is still there with all it held, and target_dir has the
\* signature.
C20_FlattenResult ==
    FlattenedFree =>
       /\ LastReturn = Some(target_dir)
       /\ ChildrenMoved
       /\ \A e \in iterdir(tree0, target_dir) : Below(tree, e.path) = Below(tree0, e.path)
       /\ TargetHasSignature

\* C20, amended: as stated for every entry of target_dir but the one on the
\* way down to the found directory; that one has lost the found directory
\* and the directories above it that the move left empty, keeps everything
\* else it held, and is gone itself exactly when nothing else was in it.
C20_FlattenResultButPath ==
    FlattenedFree =>
       /\ LastReturn = Some(target_dir)
       /\ ChildrenMoved
       /\ \A e \in iterdir(tree0, target_dir) :
             e.path # TopOfFound => Below(tree, e.path) = Below(tree0, e.path)
       /\ LET emptied == {x \in tree0 :
                             /\ IsUnder(FoundAtCall[1], x.path)
                             /\ \A y \in tree0 :
                                   (IsUnder(y.path, x.path) /\ y.path # x.path)
                                      => IsUnder(y.path, FoundAtCall[1])}
              kept == {x \in tree0 : /\ IsUnder(x.path, TopOfFound)
                                      /\ ~IsUnder(x.path, FoundAtCall[1])
                                      /\ x \notin emptied}
          IN  /\ {x \in tree : IsUnder(x.path, TopOfFound)} = kept
              /\ PathExists(tree, TopOfFound) <=> kept # {}
       /\ ~PathExists(tree, FoundAtCall[1])
       /\ TargetHasSignature

\* target/a/b was found and flattened next to a file target/x; target/a held
\* nothing else and is gone with it.
C20_Witness ==
    /\ FlattenedFree
    /\ Len(FoundAtCall[1]) = 3
    /\ LastReturn = Some(target_dir)
    /\ ~PathExists(tree, TopOfFound)
    /\ \E e \in tree : e.id = <<"target", "a", "b", "fold_1", "w">>
                       /\ e.path = <<"target", "fold_1", "w">>
    /\ \E e \in tree : e.id = <<"target", "x">> /\ e.path = e.id

============================================================================
